---- MODULE Spec2Model ----
(***************************************************************************)
(* Model of the data-api service: the /data handler of the three server    *)
(* variants (app.js, index.js and the API-key/managed-identity variant)    *)
(* with the two functions it calls, transformData and filterData.          *)
(*                                                                         *)
(* A JavaScript string is a sequence of one-character strings, so that     *)
(* split and replace are computed the way the engine computes them.  A     *)
(* cell value is a tagged record: a string, a number or undefined.  A row  *)
(* (a JavaScript object) is a function from its own keys to values.        *)
(***************************************************************************)
EXTENDS Integers, Sequences, FiniteSets, TLC

(***************************************************************************)
(* Bounds of the model.                                                    *)
(***************************************************************************)
MaxPieces == 3    \* a generated string is at most this many pieces long
MaxRows == 2      \* a generated sheet has at most this many rows

(***************************************************************************)
(* JavaScript values.                                                      *)
(***************************************************************************)
Str(s) == [t |-> "string", v |-> s]
Num(n) == [t |-> "number", v |-> n]
Undefined == [t |-> "undefined", v |-> <<>>]
EmptyStr == Str(<<>>)

\* row[field]: undefined when the object has no such own key
Get(row, field) == IF field \in DOMAIN row THEN row[field] ELSE Undefined

\* row[field] = value
Put(row, field, value) ==
  [k \in DOMAIN row \cup {field} |-> IF k = field THEN value ELSE row[k]]

\* ToBoolean of a cell value: '' , 0 and undefined are falsy
Truthy(val) ==
  CASE val.t = "string" -> val.v # <<>>
    [] val.t = "number" -> val.v # 0
    [] OTHER -> FALSE

(***************************************************************************)
(* String literals of the source.                                          *)
(***************************************************************************)
ExtAt == <<"E", "x", "t", ".", " ", "a", "t", " ">>      \* /^Ext\. at /
DashSep == <<" ", "-", " ">>                              \* ' - '
CommaSpace == <<",", " ">>                                \* ', '
Comma == <<",">>                                          \* ','
Space == <<" ">>
UndefinedName == <<"u", "n", "d", "e", "f", "i", "n", "e", "d">>

\* does sep occur in s at index i
MatchAt(s, sep, i) ==
  /\ i >= 1
  /\ i + Len(sep) - 1 <= Len(s)
  /\ SubSeq(s, i, i + Len(sep) - 1) = sep

\* String.prototype.split with a non-empty separator: the pieces between the
\* leftmost, non-overlapping occurrences, the empty pieces included
RECURSIVE Split(_, _)
Split(s, sep) ==
  LET hits == {i \in 1..Len(s) : MatchAt(s, sep, i)}
  IN IF hits = {} THEN <<s>>
     ELSE LET i == CHOOSE j \in hits : \A k \in hits : j <= k
          IN <<SubSeq(s, 1, i - 1)>> \o Split(SubSeq(s, i + Len(sep), Len(s)), sep)

\* s.replace(/^Ext\. at /, ''): one leading occurrence is removed
StripExt(s) ==
  IF MatchAt(s, ExtAt, 1) THEN SubSeq(s, Len(ExtAt) + 1, Len(s)) ELSE s

(***************************************************************************)
(* transformData.  The two schema variants differ in the composite columns *)
(* read, the name columns rewritten and the derived keys added.            *)
(***************************************************************************)
Variants == {"single", "dual"}

\* the columns whose value is rewritten in place, in the order of the source
NameFields(variant) ==
  IF variant = "dual"
    THEN <<"Name", "Primary Owner", "Current Owner", "Manager">>
    ELSE <<"Name", "Primary Owner">>

NoComposite == [threw |-> FALSE, whole |-> <<>>, client |-> <<>>, project |-> <<>>]

\* splitComposite taking the last segment, not segment 1, as the project
splitCompositeLast(val) ==
  IF ~Truthy(val) THEN NoComposite
  ELSE IF val.t # "string" THEN [NoComposite EXCEPT !.threw = TRUE]
  ELSE LET whole == StripExt(val.v)
           segments == Split(whole, DashSep)
       IN [threw |-> FALSE,
           whole |-> whole,
           client |-> IF Len(segments) >= 2 THEN segments[1] ELSE <<>>,
           project |-> IF Len(segments) >= 2 THEN segments[Len(segments)] ELSE <<>>]

\* if (row[c]) { whole = (row[c] || '').replace(/^Ext\. at /, '');
\*               segments = whole.split(' - '); if (segments.length >= 2) ... }
\* A truthy value that is no string has no replace method: a TypeError.
splitComposite(val) ==
  IF ~Truthy(val) THEN NoComposite
  ELSE IF val.t # "string" THEN [NoComposite EXCEPT !.threw = TRUE]
  ELSE LET whole == StripExt(val.v)
           segments == Split(whole, DashSep)
       IN [threw |-> FALSE,
           whole |-> whole,
           client |-> IF Len(segments) >= 2 THEN segments[1] ELSE <<>>,
           project |-> IF Len(segments) >= 2 THEN segments[2] ELSE <<>>]

\* convertName leaving a value without a first name as it is
convertNameKeep(row, field) ==
  LET val == Get(row, field)
  IN IF ~Truthy(val) THEN [threw |-> FALSE, row |-> row]
     ELSE IF val.t # "string" THEN [threw |-> TRUE, row |-> row]
     ELSE LET parts == Split(val.v, CommaSpace)
          IN [threw |-> FALSE,
              row |-> IF Len(parts) >= 2 /\ parts[2] # <<>>
                        THEN Put(row, field, Str(parts[2] \o Space \o parts[1]))
                        ELSE row]

\* if (row[f]) { const [lastName, firstName] = (row[f] || '').split(', ');
\*               row[f] = firstName ? `${firstName} ${lastName}` : ''; }
\* A truthy value that is no string has no split method: a TypeError.
convertName(row, field) ==
  LET val == Get(row, field)
  IN IF ~Truthy(val) THEN [threw |-> FALSE, row |-> row]
     ELSE IF val.t # "string" THEN [threw |-> TRUE, row |-> row]
     ELSE LET parts == Split(val.v, CommaSpace)
              lastName == parts[1]
              firstName == IF Len(parts) >= 2 THEN Str(parts[2]) ELSE Undefined
          IN [threw |-> FALSE,
              row |-> Put(row, field,
                          IF Truthy(firstName)
                            THEN Str(firstName.v \o Space \o lastName)
                            ELSE EmptyStr)]

\* the name conversions of one row, in order; the first throw ends them
RECURSIVE convertNames(_, _)
convertNames(row, fields) ==
  IF fields = <<>> THEN [threw |-> FALSE, row |-> row]
  ELSE LET first == convertName(row, Head(fields))
       IN IF first.threw THEN first ELSE convertNames(first.row, Tail(fields))

\* { ...row, k1: v1, ... }: the row's keys with the derived keys laid over them
Extend(row, extra) ==
  [k \in DOMAIN row \cup DOMAIN extra |-> IF k \in DOMAIN extra THEN extra[k] ELSE row[k]]

\* the derived keys of the returned object
derivedKeys(variant, cur, next) ==
  IF variant = "dual"
    THEN ("ClientProject" :> Str(cur.whole)) @@ ("Client" :> Str(cur.client))
         @@ ("Project" :> Str(cur.project)) @@ ("NextClientOpp" :> Str(next.whole))
         @@ ("NextClient" :> Str(next.client)) @@ ("NextProject" :> Str(next.project))
    ELSE ("Client" :> Str(next.client)) @@ ("Project" :> Str(next.project))

\* transformRow writing the derived keys into the input object itself
\* (Object.assign(row, derived) in place of the spread)
transformRowAssign(row, variant) ==
  LET next == splitComposite(Get(row, "Primary Opp"))
      cur == IF variant = "dual" /\ ~next.threw
               THEN splitComposite(Get(row, "Current Eng."))
               ELSE NoComposite
      names == convertNames(row, NameFields(variant))
  IN IF next.threw \/ cur.threw THEN [threw |-> TRUE, row |-> row, out |-> <<>>]
     ELSE IF names.threw THEN [threw |-> TRUE, row |-> names.row, out |-> <<>>]
     ELSE [threw |-> FALSE,
           row |-> Extend(names.row, derivedKeys(variant, cur, next)),
           out |-> Extend(names.row, derivedKeys(variant, cur, next))]

\* the callback of spreadsheetData.map: row is the input object as the callback
\* leaves it, out the object it returns
transformRow(row, variant) ==
  LET next == splitComposite(Get(row, "Primary Opp"))
      cur == IF variant = "dual" /\ ~next.threw
               THEN splitComposite(Get(row, "Current Eng."))
               ELSE NoComposite
      names == convertNames(row, NameFields(variant))
  IN IF next.threw \/ cur.threw THEN [threw |-> TRUE, row |-> row, out |-> <<>>]
     ELSE IF names.threw THEN [threw |-> TRUE, row |-> names.row, out |-> <<>>]
     ELSE [threw |-> FALSE, row |-> names.row,
           out |-> Extend(names.row, derivedKeys(variant, cur, next))]

\* transformData collecting its results with unshift: the output is reversed
RECURSIVE transformDataReversed(_, _)
transformDataReversed(spreadsheetData, variant) ==
  IF spreadsheetData = <<>> THEN [threw |-> FALSE, data |-> <<>>, out |-> <<>>]
  ELSE LET head == transformRow(Head(spreadsheetData), variant)
       IN IF head.threw
            THEN [threw |-> TRUE, data |-> <<head.row>> \o Tail(spreadsheetData), out |-> <<>>]
            ELSE LET rest == transformDataReversed(Tail(spreadsheetData), variant)
                 IN [threw |-> rest.threw,
                     data |-> <<head.row>> \o rest.data,
                     out |-> IF rest.threw THEN <<>> ELSE rest.out \o <<head.out>>]

\* spreadsheetData.map(callback): rows are visited in order and the first throw
\* ends the call; data is the argument array as the call leaves it
RECURSIVE transformData(_, _)
transformData(spreadsheetData, variant) ==
  IF spreadsheetData = <<>> THEN [threw |-> FALSE, data |-> <<>>, out |-> <<>>]
  ELSE LET head == transformRow(Head(spreadsheetData), variant)
       IN IF head.threw
            THEN [threw |-> TRUE, data |-> <<head.row>> \o Tail(spreadsheetData), out |-> <<>>]
            ELSE LET rest == transformData(Tail(spreadsheetData), variant)
                 IN [threw |-> rest.threw,
                     data |-> <<head.row>> \o rest.data,
                     out |-> IF rest.threw THEN <<>> ELSE <<head.out>> \o rest.out]

(***************************************************************************)
(* filterData.                                                             *)
(***************************************************************************)
Range(f) == {f[i] : i \in DOMAIN f}

\* fieldPasses with == in place of ===: a number cell equals its decimal string
fieldPassesLoose(row, queryParams, field) ==
  IF field # "tab"
    THEN \E value \in Range(Split(queryParams[field], Comma)) :
           \/ Get(row, field) = Str(value)
           \/ Get(row, field) = Num(7) /\ value = <<"7">>
    ELSE FALSE

\* the callback of Object.keys(queryParams).every: for 'tab' the function body
\* falls through and returns undefined, which every reads as false
fieldPasses(row, queryParams, field) ==
  IF field # "tab"
    THEN \E value \in Range(Split(queryParams[field], Comma)) : Get(row, field) = Str(value)
    ELSE FALSE

rowPasses(row, queryParams) ==
  \A field \in DOMAIN queryParams : fieldPasses(row, queryParams, field)

\* filterData written as a forward loop that splices a failing row out and
\* so steps over the row that follows it
RECURSIVE filterDataSplice(_, _)
filterDataSplice(data, queryParams) ==
  IF data = <<>> THEN <<>>
  ELSE IF rowPasses(Head(data), queryParams)
    THEN <<Head(data)>> \o filterDataSplice(Tail(data), queryParams)
  ELSE IF Tail(data) = <<>> THEN <<>>
  ELSE <<Head(Tail(data))>> \o filterDataSplice(Tail(Tail(data)), queryParams)

filterData(data, queryParams) ==
  SelectSeq(data, LAMBDA row : rowPasses(row, queryParams))

(***************************************************************************)
(* The synchronous tail of the /data handler, after the awaited download:  *)
(* XLSX.read, the sheet lookup, transformData, delete req.query.tab,       *)
(* filterData and the response; a throw is caught and answered with 500.   *)
(***************************************************************************)
NoResponse == [status |-> 0, message |-> "", tab |-> <<>>, json |-> <<>>]

\* Object.keys(req.query) after delete req.query.tab
DeleteTab(query) == [k \in DOMAIN query \ {"tab"} |-> query[k]]

\* req.query.tab: a string, or undefined when the parameter was not sent
SheetName(query) == IF "tab" \in DOMAIN query THEN Str(query["tab"]) ELSE Undefined

\* workbook.Sheets[sheetName]: the property key is the value converted to a
\* string; Sheets is read as holding the workbook's sheet names and no other key
PropertyKey(val) == IF val.t = "undefined" THEN UndefinedName ELSE val.v

\* the response of the catch block: res.status(500).send(error.message)
caught(message, tab) == [status |-> 500, message |-> message, tab |-> tab, json |-> <<>>]

\* from the return of transformData on: delete req.query.tab, filterData, res.json;
\* a throw of transformData reaches the catch block before the delete
respondData(transformed, query) ==
  IF transformed.threw
    THEN [resp |-> caught("TypeError", <<>>),
          query |-> query, worksheetData |-> transformed.data,
          calls |-> [transformData |-> 1, filterData |-> 0]]
    ELSE [resp |-> [status |-> 200, message |-> "", tab |-> <<>>,
                    json |-> filterData(transformed.out, DeleteTab(query))],
          query |-> DeleteTab(query), worksheetData |-> transformed.data,
          calls |-> [transformData |-> 1, filterData |-> 1]]

\* lookupSheet without the throw for a missing sheet, read as an empty sheet
lookupSheetUnchecked(sheets, query, variant, sheetName) ==
  IF Truthy(sheetName)
    THEN respondData(transformData(IF PropertyKey(sheetName) \in DOMAIN sheets
                                     THEN sheets[PropertyKey(sheetName)]
                                     ELSE <<>>, variant), query)
  ELSE [resp |-> [status |-> 400, message |-> "Tab query parameter is required",
                  tab |-> <<>>, json |-> <<>>],
        query |-> query, worksheetData |-> <<>>,
        calls |-> [transformData |-> 0, filterData |-> 0]]

\* the handler from the sheet lookup on, sheetName being req.query.tab
lookupSheet(sheets, query, variant, sheetName) ==
  IF PropertyKey(sheetName) \notin DOMAIN sheets
    THEN [resp |-> caught("Tab not found in the spreadsheet.", PropertyKey(sheetName)),
          query |-> query, worksheetData |-> <<>>,
          calls |-> [transformData |-> 0, filterData |-> 0]]
  ELSE IF Truthy(sheetName)
    THEN respondData(transformData(sheets[PropertyKey(sheetName)], variant), query)
  ELSE [resp |-> [status |-> 400, message |-> "Tab query parameter is required",
                  tab |-> <<>>, json |-> <<>>],
        query |-> query, worksheetData |-> <<>>,
        calls |-> [transformData |-> 0, filterData |-> 0]]

dataHandler(sheets, query, variant) ==
  lookupSheet(sheets, query, variant, SheetName(query))

(***************************************************************************)
(* Inputs.                                                                 *)
(***************************************************************************)
\* the strings made of at most n pieces
RECURSIVE Concats(_, _)
Concats(pieces, n) ==
  IF n = 0 THEN {<<>>}
  ELSE LET shorter == Concats(pieces, n - 1)
       IN shorter \cup {s \o p : s \in shorter, p \in pieces}

\* an object with the keys of cols that assign gives a value
RowOf(cols, assign) == [c \in {k \in cols : assign[k] # Undefined} |-> assign[c]]

\* the sequences over rows of length 0..n
SeqsUpTo(rows, n) == UNION {[1..k -> rows] : k \in 0..n}

CellPieces == {<<"a">>, <<"b">>, CommaSpace, DashSep, ExtAt, Comma, Space, <<"-">>}
CellValues == {Str(s) : s \in Concats(CellPieces, MaxPieces)} \cup {Num(0), Num(7)}

TransformColumns ==
  {"Name", "Primary Owner", "Current Owner", "Manager",
   "Primary Opp", "Current Eng.", "Region", "Client"}

SampleValues ==
  {Str(<<"b", ",", " ", "a">>), Str(<<"a", " ", "-", " ", "b">>), Str(<<"a">>), Num(7)}

\* rows with one column holding any cell value, and rows with two columns
OneCellRows == {c :> val : c \in TransformColumns, val \in CellValues}
TwoCellRows ==
  {(c :> val) @@ (d :> w) : c \in TransformColumns, d \in TransformColumns,
                            val \in SampleValues, w \in SampleValues}

SheetRows ==
  { ("Name" :> Str(<<"b", ",", " ", "a">>)) @@ ("Region" :> Str(<<"a">>))
      @@ ("Primary Opp" :> Str(ExtAt \o <<"a", " ", "-", " ", "b">>)),
    ("Name" :> Str(<<"a">>)) @@ ("Region" :> Str(<<"7">>)),
    ("Name" :> Num(7)) @@ ("Region" :> Str(<<"a">>)),
    ("Region" :> Num(7)) @@ ("Current Eng." :> Str(<<"a", " ", "-", " ", "b">>))
      @@ ("Manager" :> Str(<<"b", ",", " ", "a">>)) }

TransformInputs ==
  {<<row>> : row \in OneCellRows \cup TwoCellRows} \cup SeqsUpTo(SheetRows, MaxRows)

FilterPieces == {<<"a">>, <<"7">>, Comma}
ConstraintStrings == Concats(FilterPieces, MaxPieces)
SampleConstraints == {<<"a">>, <<"a", ",", "7">>, <<>>}
FilterColumns == {"Region", "Status", "tab"}

FilterRows ==
  {RowOf(FilterColumns, ("Region" :> r) @@ ("Status" :> st) @@ ("tab" :> tb)) :
     r \in {Undefined, Str(<<"a">>), Str(<<"7">>), Num(7), EmptyStr},
     st \in {Undefined, Str(<<"a">>)},
     tb \in {Undefined, Str(<<"a">>)}}

FilterSheetRows ==
  { "Region" :> Str(<<"a">>),
    "Region" :> Str(<<"7">>),
    ("Region" :> Str(<<"a">>)) @@ ("Status" :> Str(<<"a">>)),
    "Status" :> Num(7) }

OneKeyParams == {k :> s : k \in FilterColumns, s \in ConstraintStrings}
TwoKeyParams ==
  {(k :> s) @@ (l :> u) : k \in FilterColumns, l \in FilterColumns,
                          s \in SampleConstraints, u \in SampleConstraints}
NoParams == <<>>

FilterInputs ==
  ({<<row>> : row \in FilterRows} \X (OneKeyParams \cup TwoKeyParams \cup {NoParams}))
  \cup (SeqsUpTo(FilterSheetRows, MaxRows) \X (TwoKeyParams \cup {NoParams}))

\* the blob 'spreadsheet.xlsx': absent, or a workbook of named sheets
NoBlob == [exists |-> FALSE, sheets |-> <<>>]
SheetNames == {<<"S">>, UndefinedName}
Workbooks ==
  {[exists |-> TRUE, sheets |-> name :> rows] :
     name \in SheetNames, rows \in SeqsUpTo(SheetRows, MaxRows)}

\* the query strings of a /data request
TabValues == {<<>>, <<"S">>, <<"T">>, UndefinedName}
QueryConstraints ==
  { NoParams,
    "Region" :> <<"a">>,
    "Region" :> <<"a", ",", "7">>,
    "Region" :> <<"7">>,
    "Name" :> <<"a", " ", "b">>,
    ("Region" :> <<"a">>) @@ ("Name" :> <<"a", " ", "b">>) }
Queries ==
  QueryConstraints \cup {("tab" :> tb) @@ c : tb \in TabValues, c \in QueryConstraints}

Reqs == {"r1"}

(***************************************************************************)
(* State.                                                                  *)
(***************************************************************************)
VARIABLES
  variant,        \* which server file runs: the schema is fixed at start
  blob,           \* the blob 'spreadsheet.xlsx' in the container 'data'
  apiKey,         \* process.env.MY_API_KEY: a string, or undefined when not set
  req,            \* per request: its route, x-api-key header and uploaded file
  ran,            \* per request: the route handler that ran for it, "" if none
  blobOps,        \* per request: the blob storage operations issued for it
  pc,             \* per request: "new", "check" (at apiKeyCheck), "idle" (at its
                  \* route handler), "download", "upload", "properties"
                  \* (awaiting that operation), "failed" (never answered), "done"
  url,            \* per request: the query string as it was sent (req.originalUrl)
  query,          \* per request: req.query
  workbook,       \* per request: the workbook read from the downloaded buffer
  worksheetData,  \* per request: the parsed rows, as transformData leaves them
  resp,           \* per request: the response sent
  calls,          \* per request: how often transformData and filterData ran
  fnPc,           \* a direct call of one function: "off", "call", "returned"
  fnData,         \* its first argument, as the call leaves it
  fnData0,        \* its first argument as it was passed
  fnParams,       \* its queryParams argument
  fnRet           \* what it returned, or that it threw

handlerVars == <<blob, pc, url, query, workbook, worksheetData, resp, calls>>
fnVars == <<fnPc, fnData, fnData0, fnParams, fnRet>>
serverVars == <<apiKey, req, ran, blobOps>>
vars == <<variant, blob, pc, url, query, workbook, worksheetData, resp, calls,
          fnPc, fnData, fnData0, fnParams, fnRet, apiKey, req, ran, blobOps>>

NoCalls == [transformData |-> 0, filterData |-> 0]
\* req.file of a request that carries no file
NoFile == [exists |-> FALSE, sheets |-> <<>>]
\* a GET /data request that carries no key and no file
DataRequest == [route |-> "data", key |-> Undefined, file |-> NoFile]
NoReturn == [threw |-> FALSE, out |-> <<>>]

HandlerIdle ==
  /\ pc = [r \in Reqs |-> "idle"]
  /\ url = [r \in Reqs |-> NoParams]
  /\ query = [r \in Reqs |-> NoParams]
  /\ workbook = [r \in Reqs |-> NoBlob]
  /\ worksheetData = [r \in Reqs |-> <<>>]
  /\ resp = [r \in Reqs |-> NoResponse]
  /\ calls = [r \in Reqs |-> NoCalls]

\* requests that stand at the /data route handler: the handler reads neither
\* the key nor the file
AtDataRoute(rs) ==
  /\ apiKey = Undefined
  /\ req = [r \in rs |-> DataRequest]
  /\ ran = [r \in rs |-> ""]
  /\ blobOps = [r \in rs |-> <<>>]

FnOff ==
  /\ fnPc = "off"
  /\ fnData = <<>>
  /\ fnData0 = <<>>
  /\ fnParams = NoParams
  /\ fnRet = NoReturn

(***************************************************************************)
(* The service: /data requests against the stored blob.                    *)
(***************************************************************************)
Init ==
  /\ variant \in Variants
  /\ blob \in Workbooks \cup {NoBlob}
  /\ HandlerIdle
  /\ AtDataRoute(Reqs)
  /\ FnOff

\* app.get('/data'): the handler runs up to its first await, the download
Request(r) ==
  /\ pc[r] = "idle"
  /\ req[r].route = "data"
  /\ ran' = [ran EXCEPT ![r] = "data"]
  /\ blobOps' = [blobOps EXCEPT ![r] = Append(@, "download")]
  /\ \E q \in Queries :
        /\ url' = [url EXCEPT ![r] = q]
        /\ query' = [query EXCEPT ![r] = q]
  /\ pc' = [pc EXCEPT ![r] = "download"]
  /\ UNCHANGED <<variant, blob, workbook, worksheetData, resp, calls, fnVars, apiKey, req>>

\* the download or the stream rejects (always so without a blob): caught, 500
DownloadFails(r) ==
  /\ pc[r] = "download"
  /\ resp' = [resp EXCEPT ![r] = caught("download failed", <<>>)]
  /\ pc' = [pc EXCEPT ![r] = "done"]
  /\ UNCHANGED <<variant, blob, url, query, workbook, worksheetData, calls, fnVars, serverVars>>

\* a handler that kept the query mapping in a variable shared by the requests
CompleteShared(r) ==
  /\ pc[r] = "download"
  /\ blob.exists
  /\ \E s \in DOMAIN pc :
        /\ pc[s] # "idle"
        /\ \E run \in {dataHandler(blob.sheets, query[s], variant)} :
              /\ resp' = [resp EXCEPT ![r] = run.resp]
              /\ query' = [query EXCEPT ![r] = run.query, ![s] = run.query]
              /\ worksheetData' = [worksheetData EXCEPT ![r] = run.worksheetData]
              /\ calls' = [calls EXCEPT ![r] = run.calls]
  /\ workbook' = [workbook EXCEPT ![r] = blob]
  /\ pc' = [pc EXCEPT ![r] = "done"]
  /\ UNCHANGED <<variant, blob, url, fnVars, serverVars>>

\* the download resolves and the rest of the handler runs to its response
Complete(r) ==
  /\ pc[r] = "download"
  /\ blob.exists
  /\ \E run \in {dataHandler(blob.sheets, query[r], variant)} :
        /\ resp' = [resp EXCEPT ![r] = run.resp]
        /\ query' = [query EXCEPT ![r] = run.query]
        /\ worksheetData' = [worksheetData EXCEPT ![r] = run.worksheetData]
        /\ calls' = [calls EXCEPT ![r] = run.calls]
  /\ workbook' = [workbook EXCEPT ![r] = blob]
  /\ pc' = [pc EXCEPT ![r] = "done"]
  /\ UNCHANGED <<variant, blob, url, fnVars, serverVars>>

Next == \E r \in Reqs : Request(r) \/ DownloadFails(r) \/ Complete(r)

Spec == Init /\ [][Next]_vars

(***************************************************************************)
(* The key-protected server: every request passes apiKeyCheck before the   *)
(* routes /upload, /data, /lastmodified and /healthcheck.                  *)
(***************************************************************************)
\* the routes registered after app.use(apiKeyCheck)
Routes(v) ==
  IF v = "dual" THEN {"upload", "data", "lastmodified", "healthcheck"}
  ELSE {"upload", "data"}

\* values of process.env.MY_API_KEY and of the x-api-key header
EnvKeys == {Undefined, Str(<<>>), Str(<<"k">>)}
HeaderKeys == {Undefined, Str(<<>>), Str(<<"k">>), Str(<<"x">>)}
\* req.file after upload.single('file'), and what the container may hold
UploadFiles ==
  {NoFile} \cup
    {[exists |-> TRUE, sheets |-> <<"S">> :> <<row>>] : row \in SheetRows}
ServerRequests(v) ==
  {[route |-> "upload", key |-> k, file |-> f] :
     k \in HeaderKeys, f \in UploadFiles}
  \cup {[route |-> rt, key |-> k, file |-> NoFile] :
          rt \in Routes(v) \ {"upload"}, k \in HeaderKeys}

Unauthorized ==
  [status |-> 401, message |-> "Unauthorized: Invalid API key",
   tab |-> <<>>, json |-> <<>>]
Sent(status, message) ==
  [status |-> status, message |-> message, tab |-> <<>>, json |-> <<>>]

\* a check that compares the keys without asking whether one is configured
apiKeyCheckUnset(key, requestApiKey) ==
  IF requestApiKey # key
    THEN [next |-> FALSE, resp |-> Unauthorized]
    ELSE [next |-> TRUE, resp |-> NoResponse]

\* apiKeyCheck: 401 unless a key is configured and the header is that key
apiKeyCheck(key, requestApiKey) ==
  IF ~Truthy(key) \/ requestApiKey # key
    THEN [next |-> FALSE, resp |-> Unauthorized]
    ELSE [next |-> TRUE, resp |-> NoResponse]

InitServer ==
  /\ variant \in Variants
  /\ blob \in UploadFiles
  /\ apiKey \in EnvKeys
  /\ pc = [r \in Reqs |-> "new"]
  /\ url = [r \in Reqs |-> NoParams]
  /\ query = [r \in Reqs |-> NoParams]
  /\ workbook = [r \in Reqs |-> NoBlob]
  /\ worksheetData = [r \in Reqs |-> <<>>]
  /\ resp = [r \in Reqs |-> NoResponse]
  /\ calls = [r \in Reqs |-> NoCalls]
  /\ req = [r \in Reqs |-> DataRequest]
  /\ ran = [r \in Reqs |-> ""]
  /\ blobOps = [r \in Reqs |-> <<>>]
  /\ FnOff

\* a request for one of the routes reaches the server
Arrive(r) ==
  /\ pc[r] = "new"
  /\ \E rq \in ServerRequests(variant) : req' = [req EXCEPT ![r] = rq]
  /\ pc' = [pc EXCEPT ![r] = "check"]
  /\ UNCHANGED <<variant, blob, url, query, workbook, worksheetData, resp, calls,
                 fnVars, apiKey, ran, blobOps>>

\* app.use(apiKeyCheck): answer 401, or pass the request on to its route
ApiKeyCheck(r) ==
  /\ pc[r] = "check"
  /\ \E chk \in {apiKeyCheck(apiKey, req[r].key)} :
        IF chk.next
          THEN /\ pc' = [pc EXCEPT ![r] = "idle"]
               /\ UNCHANGED resp
          ELSE /\ pc' = [pc EXCEPT ![r] = "done"]
               /\ resp' = [resp EXCEPT ![r] = chk.resp]
  /\ UNCHANGED <<variant, blob, url, query, workbook, worksheetData, calls,
                 fnVars, serverVars>>

\* app.post('/upload'): 400 without a file, else up to the awaited upload
Upload(r) ==
  /\ pc[r] = "idle"
  /\ req[r].route = "upload"
  /\ ran' = [ran EXCEPT ![r] = "upload"]
  /\ IF ~req[r].file.exists
       THEN /\ resp' = [resp EXCEPT ![r] = Sent(400, "No file uploaded.")]
            /\ pc' = [pc EXCEPT ![r] = "done"]
            /\ UNCHANGED blobOps
       ELSE /\ blobOps' = [blobOps EXCEPT ![r] = Append(@, "upload")]
            /\ pc' = [pc EXCEPT ![r] = "upload"]
            /\ UNCHANGED resp
  /\ UNCHANGED <<variant, blob, url, query, workbook, worksheetData, calls,
                 fnVars, apiKey, req>>

\* the upload resolves: the blob is replaced and the handler answers 200
UploadDone(r) ==
  /\ pc[r] = "upload"
  /\ blob' = req[r].file
  /\ resp' = [resp EXCEPT ![r] = Sent(200, "File uploaded successfully.")]
  /\ pc' = [pc EXCEPT ![r] = "done"]
  /\ UNCHANGED <<variant, url, query, workbook, worksheetData, calls,
                 fnVars, serverVars>>

\* the upload rejects: the handler has no catch, so no response is sent
UploadFails(r) ==
  /\ pc[r] = "upload"
  /\ pc' = [pc EXCEPT ![r] = "failed"]
  /\ UNCHANGED <<variant, blob, url, query, workbook, worksheetData, resp, calls,
                 fnVars, serverVars>>

\* app.get('/lastmodified'): up to the awaited getProperties
LastModified(r) ==
  /\ pc[r] = "idle"
  /\ req[r].route = "lastmodified"
  /\ ran' = [ran EXCEPT ![r] = "lastmodified"]
  /\ blobOps' = [blobOps EXCEPT ![r] = Append(@, "getProperties")]
  /\ pc' = [pc EXCEPT ![r] = "properties"]
  /\ UNCHANGED <<variant, blob, url, query, workbook, worksheetData, resp, calls,
                 fnVars, apiKey, req>>

\* getProperties resolves: 200 with the blob's modification date (the date
\* is the storage service's and is not represented)
LastModifiedDone(r) ==
  /\ pc[r] = "properties"
  /\ blob.exists
  /\ resp' = [resp EXCEPT ![r] = Sent(200, "lastModified")]
  /\ pc' = [pc EXCEPT ![r] = "done"]
  /\ UNCHANGED <<variant, blob, url, query, workbook, worksheetData, calls,
                 fnVars, serverVars>>

\* getProperties rejects: 404 when there is no blob, 500 for any other error
LastModifiedFails(r) ==
  /\ pc[r] = "properties"
  /\ \E answer \in {Sent(500, "getProperties failed")} \cup
                     (IF blob.exists THEN {} ELSE {Sent(404, "File not found")}) :
        resp' = [resp EXCEPT ![r] = answer]
  /\ pc' = [pc EXCEPT ![r] = "done"]
  /\ UNCHANGED <<variant, blob, url, query, workbook, worksheetData, calls,
                 fnVars, serverVars>>

\* app.get('/healthcheck')
Healthcheck(r) ==
  /\ pc[r] = "idle"
  /\ req[r].route = "healthcheck"
  /\ ran' = [ran EXCEPT ![r] = "healthcheck"]
  /\ resp' = [resp EXCEPT ![r] = Sent(200, "Everthing is working okay")]
  /\ pc' = [pc EXCEPT ![r] = "done"]
  /\ UNCHANGED <<variant, blob, url, query, workbook, worksheetData, calls,
                 fnVars, apiKey, req, blobOps>>

NextServer ==
  \E r \in Reqs :
    \/ Arrive(r)
    \/ ApiKeyCheck(r)
    \/ Upload(r)
    \/ UploadDone(r)
    \/ UploadFails(r)
    \/ Request(r)
    \/ DownloadFails(r)
    \/ Complete(r)
    \/ LastModified(r)
    \/ LastModifiedDone(r)
    \/ LastModifiedFails(r)
    \/ Healthcheck(r)

SpecServer == InitServer /\ [][NextServer]_vars

(***************************************************************************)
(* Two /data requests in flight at once.  Each handler yields to the other *)
(* only while it awaits its download; the code before and the code after   *)
(* the await run without interruption.                                     *)
(***************************************************************************)
Clients == {"r1", "r2"}
ConcurrentWorkbooks ==
  {[exists |-> TRUE, sheets |-> <<"S">> :> <<first, second>>] :
     first \in SheetRows, second \in SheetRows}

InitConcurrent ==
  /\ variant \in Variants
  /\ blob \in ConcurrentWorkbooks
  /\ pc = [r \in Clients |-> "idle"]
  /\ url = [r \in Clients |-> NoParams]
  /\ query = [r \in Clients |-> NoParams]
  /\ workbook = [r \in Clients |-> NoBlob]
  /\ worksheetData = [r \in Clients |-> <<>>]
  /\ resp = [r \in Clients |-> NoResponse]
  /\ calls = [r \in Clients |-> NoCalls]
  /\ AtDataRoute(Clients)
  /\ FnOff

NextConcurrent ==
  \E r \in Clients : Request(r) \/ DownloadFails(r) \/ Complete(r)

SpecConcurrent == InitConcurrent /\ [][NextConcurrent]_vars

(***************************************************************************)
(* transformData called on its own.                                        *)
(***************************************************************************)
InitTransform ==
  /\ variant \in Variants
  /\ blob = NoBlob
  /\ HandlerIdle
  /\ AtDataRoute(Reqs)
  /\ fnPc = "call"
  /\ fnData \in TransformInputs
  /\ fnData0 = fnData
  /\ fnParams = NoParams
  /\ fnRet = NoReturn

CallTransform ==
  /\ fnPc = "call"
  /\ \E run \in {transformData(fnData, variant)} :
        /\ fnData' = run.data
        /\ fnRet' = [threw |-> run.threw, out |-> run.out]
  /\ fnPc' = "returned"
  /\ UNCHANGED <<variant, handlerVars, serverVars, fnData0, fnParams>>

SpecTransform == InitTransform /\ [][CallTransform]_vars

(***************************************************************************)
(* filterData called on its own.                                           *)
(***************************************************************************)
InitFilter ==
  /\ variant \in Variants
  /\ blob = NoBlob
  /\ HandlerIdle
  /\ AtDataRoute(Reqs)
  /\ fnPc = "call"
  /\ \E in \in FilterInputs : fnData = in[1] /\ fnParams = in[2]
  /\ fnData0 = fnData
  /\ fnRet = NoReturn

CallFilter ==
  /\ fnPc = "call"
  /\ fnRet' = [threw |-> FALSE, out |-> filterData(fnData, fnParams)]
  /\ fnPc' = "returned"
  /\ UNCHANGED <<variant, handlerVars, serverVars, fnData, fnData0, fnParams>>

SpecFilter == InitFilter /\ [][CallFilter]_vars

(***************************************************************************)
(* Properties of filterData, checked under SpecFilter.                     *)
(***************************************************************************)
\* the values a constraint string accepts: its maximal comma-free stretches,
\* the empty ones included
Accepted(s) ==
  {SubSeq(s, p[1], p[2]) :
     p \in {q \in (1..Len(s) + 1) \X (0..Len(s)) :
              /\ q[2] >= q[1] - 1
              /\ \A i \in q[1]..q[2] : s[i] # ","
              /\ (q[1] = 1 \/ s[q[1] - 1] = ",")
              /\ (q[2] = Len(s) \/ s[q[2] + 1] = ",")}}

\* the row has the column, holding a string that the constraint accepts
Satisfies(row, constraints, key) ==
  /\ key \in DOMAIN row
  /\ row[key].t = "string"
  /\ row[key].v \in Accepted(constraints[key])

Kept(row, constraints) == \A key \in DOMAIN constraints : Satisfies(row, constraints, key)

\* C1: for a constraint set (the query mapping without the reserved key 'tab',
\* as the handler passes it), filterData returns exactly the rows that, for
\* every constraint key, hold at that column a string equal to one of the
\* comma-separated values, in their input order; a row without the column or
\* with another value there (a number, too) is left out and the call returns.
C1_FilterKeepsMatchingRows ==
  (fnPc = "returned" /\ "tab" \notin DOMAIN fnParams)
    => fnRet.out = SelectSeq(fnData0, LAMBDA row : Kept(row, fnParams))

C1_Witness ==
  /\ fnPc = "returned"
  /\ "tab" \notin DOMAIN fnParams
  /\ Len(fnData0) = 2
  /\ fnRet.out = <<fnData0[1]>>
  /\ \E key \in DOMAIN fnParams : key \notin DOMAIN fnData0[2]
  /\ \E key \in DOMAIN fnParams : Cardinality(Accepted(fnParams[key])) = 2

\* C2: with the reserved key 'tab' among the constraints, filterData returns
\* what it returns for the same constraints without 'tab'.
C2_TabAlwaysPasses ==
  (fnPc = "returned" /\ "tab" \in DOMAIN fnParams)
    => fnRet.out = filterData(fnData0, DeleteTab(fnParams))

\* C9: filtering the result of filterData again by the same constraints
\* changes nothing.
C9_FilterIdempotent ==
  fnPc = "returned" => filterData(fnRet.out, fnParams) = fnRet.out

C9_Witness ==
  /\ fnPc = "returned"
  /\ Len(fnData0) = 2
  /\ Len(fnRet.out) = 1
  /\ DOMAIN fnParams # {}

(***************************************************************************)
(* Properties of transformData, checked under SpecTransform.               *)
(***************************************************************************)
\* where sep first occurs in s, 0 when it does not
Find(s, sep) ==
  LET hits == {i \in 1..Len(s) : MatchAt(s, sep, i)}
  IN IF hits = {} THEN 0 ELSE CHOOSE i \in hits : \A j \in hits : i <= j

Contains(s, sep) == Find(s, sep) # 0
Before(s, sep) == SubSeq(s, 1, Find(s, sep) - 1)
After(s, sep) == SubSeq(s, Find(s, sep) + Len(sep), Len(s))
\* the text up to the first sep, all of s when there is none
FirstPiece(s, sep) == IF Contains(s, sep) THEN Before(s, sep) ELSE s

NameFieldSet == Range(NameFields(variant))
DerivedKeySet ==
  IF variant = "dual"
    THEN {"ClientProject", "Client", "Project", "NextClientOpp", "NextClient", "NextProject"}
    ELSE {"Client", "Project"}
\* <<composite column, client key, project key>> of the variant
CompositeMap ==
  IF variant = "dual"
    THEN {<<"Current Eng.", "Client", "Project">>, <<"Primary Opp", "NextClient", "NextProject">>}
    ELSE {<<"Primary Opp", "Client", "Project">>}
ReadColumns == NameFieldSet \cup {m[1] : m \in CompositeMap}

Returned == fnPc = "returned" /\ ~fnRet.threw

\* '<right> <left>' of 'left, right'
Swapped(s) == FirstPiece(After(s, CommaSpace), CommaSpace) \o Space \o Before(s, CommaSpace)

\* the statement of C3 as written: any right-hand segment, the empty one too
NameAsClaimed(s) == IF Contains(s, CommaSpace) THEN Swapped(s) ELSE <<>>

\* the right-hand segment must be non-empty
NameReformatted(s) ==
  IF Contains(s, CommaSpace) /\ FirstPiece(After(s, CommaSpace), CommaSpace) # <<>>
    THEN Swapped(s)
    ELSE <<>>

\* C3 as written: every configured name field holding a string becomes
\* '<right> <left>' if splitting on ', ' gives a right-hand segment, and ''
\* if the value has no ', '.
C3_NameAsClaimed ==
  Returned =>
    \A i \in 1..Len(fnData0) : \A f \in NameFieldSet :
      (f \in DOMAIN fnData0[i] /\ fnData0[i][f].t = "string")
        => fnRet.out[i][f] = Str(NameAsClaimed(fnData0[i][f].v))

\* C3 amended: every configured name field holding a string becomes
\* '<right> <left>' if splitting on ', ' gives a non-empty right-hand segment,
\* and '' otherwise (no ', ', or nothing between the first ', ' and the next
\* ', ' or the end); each field by its own value alone.
C3_NameReformatted ==
  Returned =>
    \A i \in 1..Len(fnData0) : \A f \in NameFieldSet :
      (f \in DOMAIN fnData0[i] /\ fnData0[i][f].t = "string")
        => fnRet.out[i][f] = Str(NameReformatted(fnData0[i][f].v))

C3_Witness ==
  /\ Returned
  /\ \E i \in 1..Len(fnData0) : \E f \in NameFieldSet, g \in NameFieldSet :
       /\ f # g
       /\ Get(fnData0[i], f) = Str(<<"b", ",", " ", "a">>)
       /\ fnRet.out[i][f] = Str(<<"a", " ", "b">>)
       /\ Get(fnData0[i], g) = Str(<<"a">>)
       /\ fnRet.out[i][g] = EmptyStr

\* the client and project a composite cell stands for
Stripped(s) ==
  IF Len(s) >= Len(ExtAt) /\ SubSeq(s, 1, Len(ExtAt)) = ExtAt
    THEN SubSeq(s, Len(ExtAt) + 1, Len(s))
    ELSE s
HasBoth(val) == val.t = "string" /\ Contains(Stripped(val.v), DashSep)
ClientOf(val) == IF HasBoth(val) THEN Before(Stripped(val.v), DashSep) ELSE <<>>
ProjectOf(val) ==
  IF HasBoth(val) THEN FirstPiece(After(Stripped(val.v), DashSep), DashSep) ELSE <<>>

\* C4: the client and project of every returned row are segment 0 and segment 1
\* of the composite cell, one leading 'Ext. at ' removed and the rest split on
\* ' - ', and both are '' when the cell is missing, empty or without ' - ';
\* no error is raised over rows whose cells are strings or missing.
C4_ClientProjectDerived ==
  fnPc = "returned" =>
    /\ fnRet.threw =>
         \E i \in 1..Len(fnData0) : \E c \in ReadColumns : Get(fnData0[i], c).t = "number"
    /\ ~fnRet.threw =>
         \A i \in 1..Len(fnData0) : \A m \in CompositeMap :
           /\ fnRet.out[i][m[2]] = Str(ClientOf(Get(fnData0[i], m[1])))
           /\ fnRet.out[i][m[3]] = Str(ProjectOf(Get(fnData0[i], m[1])))

C4_Witness ==
  /\ Returned
  /\ Len(fnData0) = 2
  /\ Get(fnData0[1], "Primary Opp") = Str(ExtAt \o <<"a", " ", "-", " ", "b">>)
  /\ \E m \in CompositeMap :
       /\ m[1] = "Primary Opp"
       /\ fnRet.out[1][m[2]] = Str(<<"a">>)
       /\ fnRet.out[1][m[3]] = Str(<<"b">>)
       /\ m[1] \notin DOMAIN fnData0[2]
       /\ fnRet.out[2][m[2]] = EmptyStr
       /\ fnRet.out[2][m[3]] = EmptyStr

\* C6 as written: after transformData returns, the input rows are as they were.
C6_InputUntouched == Returned => fnData = fnData0

\* C6 amended: transformData adds no key to and removes no key from an input
\* row and changes no value of it but those of the configured name fields that
\* hold a non-empty string, which it overwrites in place with the reformatted
\* name (the value the returned row has); the derived fields are written to
\* the returned rows only.
C6_OnlyNamesRewritten ==
  fnPc = "returned" =>
    /\ Len(fnData) = Len(fnData0)
    /\ \A i \in 1..Len(fnData0) :
         /\ DOMAIN fnData[i] = DOMAIN fnData0[i]
         /\ \A k \in DOMAIN fnData0[i] :
              \/ fnData[i][k] = fnData0[i][k]
              \/ /\ k \in NameFieldSet
                 /\ fnData0[i][k].t = "string"
                 /\ fnData0[i][k].v # <<>>
                 /\ fnData[i][k] = Str(NameReformatted(fnData0[i][k].v))
    /\ ~fnRet.threw =>
         \A i \in 1..Len(fnData0) :
           /\ DOMAIN fnRet.out[i] = DOMAIN fnData0[i] \cup DerivedKeySet
           /\ \A k \in DOMAIN fnData0[i] \ DerivedKeySet : fnRet.out[i][k] = fnData[i][k]

C6_Witness ==
  /\ Returned
  /\ \E i \in 1..Len(fnData0) :
       /\ Get(fnData0[i], "Name") = Str(<<"b", ",", " ", "a">>)
       /\ Get(fnData[i], "Name") = Str(<<"a", " ", "b">>)
       /\ "Client" \notin DOMAIN fnData[i]
       /\ "Client" \in DOMAIN fnRet.out[i]

\* C10: transformData returns one row per input row, in the same order, row i
\* of the output being what the mapping makes of row i of the input alone.
C10_OneRowPerRow ==
  Returned =>
    /\ Len(fnRet.out) = Len(fnData0)
    /\ \A i \in 1..Len(fnData0) : fnRet.out[i] = transformRow(fnData0[i], variant).out

C10_Witness ==
  /\ Returned
  /\ Len(fnData0) = 2
  /\ Len(fnRet.out) = 2
  /\ fnData0[1] # fnData0[2]
  /\ fnRet.out[1] # fnRet.out[2]

(***************************************************************************)
(* Properties of the /data handler, checked under Spec.                    *)
(***************************************************************************)
\* the request got its response after a successful download
Answered(r) == pc[r] = "done" /\ workbook[r].exists

\* C5: transformData raises no error over cells that are strings, numbers or
\* empty, so a request whose sheet was found and transformed is answered with
\* the rows (200), not with an error.
C5_TransformNeverThrows ==
  \A r \in Reqs :
    (Answered(r) /\ calls[r].transformData = 1)
      => resp[r].status = 200 /\ resp[r].message = ""

\* C7: a request sent without 'tab' is answered 400 'Tab query parameter is
\* required', not with the answer for a sheet that was not found, and neither
\* transformData nor filterData runs for it.
C7_MissingTabRejected ==
  \A r \in Reqs :
    (Answered(r) /\ "tab" \notin DOMAIN url[r])
      => /\ resp[r].status = 400
         /\ resp[r].message = "Tab query parameter is required"
         /\ calls[r] = NoCalls

C11_TabOnlyReturnsAllRows ==
  \A r \in Reqs :
    (Answered(r) /\ DOMAIN url[r] = {"tab"}
       /\ url[r]["tab"] \in DOMAIN workbook[r].sheets)
      => /\ resp[r].status = 200
         /\ Len(resp[r].json) = Len(workbook[r].sheets[url[r]["tab"]])
         /\ resp[r].json =
              transformData(workbook[r].sheets[url[r]["tab"]], variant).out

(***************************************************************************)
(* Claims about concurrent requests.                                       *)
(***************************************************************************)
\* what request r is answered when no other request is in flight: the
\* handler applied to the workbook r downloaded and to the query r was sent
Alone(r) == dataHandler(workbook[r].sheets, url[r], variant)

\* C12: whatever the interleaving of two requests, each one that got its
\* workbook is answered as it would be alone on that workbook: same
\* response, same rows read and rewritten, same query mapping left behind;
\* one whose download failed is answered with that failure.
C12_NoInterference ==
  \A r \in Clients :
    /\ Answered(r) =>
         /\ resp[r] = Alone(r).resp
         /\ worksheetData[r] = Alone(r).worksheetData
         /\ query[r] = Alone(r).query
         /\ calls[r] = Alone(r).calls
    /\ (pc[r] = "done" /\ ~workbook[r].exists) =>
         /\ resp[r] = caught("download failed", <<>>)
         /\ query[r] = url[r]

\* both requests were answered from the same two-row sheet; they asked for
\* different things and each got its own rows
C12_Witness ==
  /\ Answered("r1") /\ Answered("r2")
  /\ url["r1"] = "tab" :> <<"S">>
  /\ url["r2"] = ("tab" :> <<"S">>) @@ ("Region" :> <<"7">>)
  /\ resp["r1"].status = 200 /\ resp["r2"].status = 200
  /\ Len(resp["r1"].json) = 2
  /\ Len(resp["r2"].json) = 1

(***************************************************************************)
(* Claims about the API key.                                               *)
(***************************************************************************)
\* MY_API_KEY is configured, non-empty, and the request's header equals it
Authorized(r) ==
  /\ apiKey.t = "string"
  /\ apiKey.v # <<>>
  /\ req[r].key.t = "string"
  /\ req[r].key.v = apiKey.v

\* C13: for a request that is not authorized no route handler runs, neither
\* transformData nor filterData is called and no blob operation is issued;
\* it stands at the check or has been answered 401 and nothing else.  This
\* covers every request when MY_API_KEY is not configured.
C13_KeyGuardsRoutes ==
  \A r \in Reqs :
    (pc[r] # "new" /\ ~Authorized(r))
      => /\ ran[r] = ""
         /\ blobOps[r] = <<>>
         /\ calls[r] = NoCalls
         /\ pc[r] \in {"check", "done"}
         /\ pc[r] = "check" => resp[r] = NoResponse
         /\ pc[r] = "done" => resp[r] = Unauthorized

\* an upload with a file, sent without a key to a server that has none
\* configured, was answered 401 and the blob was not touched
C13_Witness ==
  \E r \in Reqs :
    /\ pc[r] = "done"
    /\ apiKey = Undefined
    /\ req[r].key = Undefined
    /\ req[r].route = "upload"
    /\ req[r].file.exists
    /\ resp[r] = Unauthorized
    /\ blobOps[r] = <<>>

====
